---- MODULE Spec2Model ----
(***************************************************************************)
(* Model of the tutor server's request broker (ClaudeBridge), its circuit  *)
(* breaker, its subprocess handling and its output parser.                 *)
(*                                                                         *)
(* One action is one event-loop task of the Node.js process: an event      *)
(* handler together with every promise continuation it triggers, which     *)
(* run to completion before the next task starts.                          *)
(*                                                                         *)
(* Time is kept by clocks: where the code stores a timestamp t and later   *)
(* reads Date.now() - t, or arms a timer, the model stores the time        *)
(* elapsed since t.  A clock stops at the largest value the code compares  *)
(* it with.                                                                *)
(***************************************************************************)
EXTENDS Integers, Sequences, FiniteSets, TLC

\* ------------------------------------------------------------------ bounds
\* the broker under sustained failure: chat() calls, and requests waiting
MaxRequests == 5
MaxQueue == 1
\* the broker's queue: chat() calls, and requests waiting
MaxFifoRequests == 4
MaxFifoQueue == 2
\* the broker with fair timers: chat() calls
MaxLiveRequests == 2
\* the broker's session state: chat() calls, and requests waiting
MaxSessionRequests == 3
MaxSessionQueue == 2
\* the broker beside memory compaction: compaction queries, and chat() calls
MaxLines == 3
MaxCompactions == 1
MaxCompactionRequests == 2

\* ------------------------------------------------------- program constants
TIMEOUT_MS == 60000
KILL_GRACE_MS == 5000
MAX_RETRIES == 2
RETRY_DELAY_MS == 1000
CIRCUIT_FAILURE_THRESHOLD == 3
CIRCUIT_RESET_TIMEOUT_MS == 30000
COMPACTION_TIMEOUT_MS == 30000
COMPACTION_KEY_THRESHOLD == 20
COMPACTION_VALUE_THRESHOLD == 50

\* null / undefined
None == "<none>"

Min(a, b) == IF a < b THEN a ELSE b

\* ----------------------------------------------------------------- strings
UpperCase == <<"A","B","C","D","E","F","G","H","I","J","K","L","M",
               "N","O","P","Q","R","S","T","U","V","W","X","Y","Z">>
LowerCase == <<"a","b","c","d","e","f","g","h","i","j","k","l","m",
               "n","o","p","q","r","s","t","u","v","w","x","y","z">>

LowerChar(c) ==
    IF \E i \in 1..26 : UpperCase[i] = c
    THEN LowerCase[CHOOSE i \in 1..26 : UpperCase[i] = c]
    ELSE c

RECURSIVE ToLowerCase(_)
ToLowerCase(s) ==
    IF Len(s) = 0 THEN ""
    ELSE LowerChar(SubSeq(s, 1, 1)) \o ToLowerCase(SubSeq(s, 2, Len(s)))

\* String.prototype.includes
Includes(s, sub) ==
    \E i \in 1..(Len(s) - Len(sub) + 1) : SubSeq(s, i, i + Len(sub) - 1) = sub

WhiteSpace == {" ", "\n", "\t", "\r"}

RECURSIVE TrimStart(_)
TrimStart(s) ==
    IF Len(s) > 0 /\ SubSeq(s, 1, 1) \in WhiteSpace
    THEN TrimStart(SubSeq(s, 2, Len(s)))
    ELSE s

RECURSIVE TrimEnd(_)
TrimEnd(s) ==
    IF Len(s) > 0 /\ SubSeq(s, Len(s), Len(s)) \in WhiteSpace
    THEN TrimEnd(SubSeq(s, 1, Len(s) - 1))
    ELSE s

\* String.prototype.trim
Trim(s) == TrimEnd(TrimStart(s))

\* --------------------------------------------------------- circuit breaker
\* A breaker is [state, failureCount, sinceFailure]; sinceFailure is
\* Date.now() - lastFailureTime, stopped at CIRCUIT_RESET_TIMEOUT_MS.  The
\* clock runs only while the breaker is Open, the one state in which
\* canExecute reads it; every way into Open goes through recordFailure,
\* which sets it to 0.
NewCircuitBreaker ==
    [state |-> "CLOSED", failureCount |-> 0,
     sinceFailure |-> CIRCUIT_RESET_TIMEOUT_MS]

\* canExecute() with the cooldown compared by > instead of >=
CanExecuteCallStrict(cb) ==
    IF cb.state = "CLOSED" THEN [result |-> TRUE, breaker |-> cb]
    ELSE IF cb.state = "OPEN"
         THEN IF cb.sinceFailure > CIRCUIT_RESET_TIMEOUT_MS
              THEN [result |-> TRUE, breaker |-> [cb EXCEPT !.state = "HALF_OPEN"]]
              ELSE [result |-> FALSE, breaker |-> cb]
         ELSE [result |-> TRUE, breaker |-> cb]

\* canExecute() that restarts the cooldown when it refuses
CanExecuteCallRefreshing(cb) ==
    IF cb.state = "CLOSED" THEN [result |-> TRUE, breaker |-> cb]
    ELSE IF cb.state = "OPEN"
         THEN IF cb.sinceFailure >= CIRCUIT_RESET_TIMEOUT_MS
              THEN [result |-> TRUE, breaker |-> [cb EXCEPT !.state = "HALF_OPEN"]]
              ELSE [result |-> FALSE, breaker |-> [cb EXCEPT !.sinceFailure = 0]]
         ELSE [result |-> TRUE, breaker |-> cb]

\* canExecute(): the value returned and the breaker left
CanExecuteCall(cb) ==
    IF cb.state = "CLOSED" THEN [result |-> TRUE, breaker |-> cb]
    ELSE IF cb.state = "OPEN"
         THEN IF cb.sinceFailure >= CIRCUIT_RESET_TIMEOUT_MS
              THEN [result |-> TRUE, breaker |-> [cb EXCEPT !.state = "HALF_OPEN"]]
              ELSE [result |-> FALSE, breaker |-> cb]
         ELSE [result |-> TRUE, breaker |-> cb]

CanExecute(cb) == CanExecuteCall(cb).result
AfterCanExecute(cb) == CanExecuteCall(cb).breaker

\* recordSuccess() that forgets to reset the failure counter
RecordSuccessKeepsCount(cb) ==
    [cb EXCEPT !.state = "CLOSED"]

RecordSuccess(cb) ==
    [cb EXCEPT !.failureCount = 0, !.state = "CLOSED"]

\* recordFailure() that does not refresh lastFailureTime
RecordFailureKeepsTime(cb) ==
    LET n == cb.failureCount + 1
    IN  [state |-> IF n >= CIRCUIT_FAILURE_THRESHOLD \/ cb.state = "HALF_OPEN"
                   THEN "OPEN" ELSE cb.state,
         failureCount |-> n,
         sinceFailure |-> cb.sinceFailure]

RecordFailure(cb) ==
    LET n == cb.failureCount + 1
    IN  [state |-> IF n >= CIRCUIT_FAILURE_THRESHOLD \/ cb.state = "HALF_OPEN"
                   THEN "OPEN" ELSE cb.state,
         failureCount |-> n,
         sinceFailure |-> 0]

GetState(cb) == cb.state

\* ------------------------------------------------------------ retry policy
\* isRetryableError(error), on the error's message
IsRetryableError(message) ==
    LET m == ToLowerCase(message)
    IN  \/ Includes(m, "timeout")
        \/ Includes(m, "econnreset")
        \/ Includes(m, "spawn")
        \/ Includes(m, "enoent")

\* the error of the 'close' handler's timeout path
TimedOutMessage == "Request timed out"

\* `${code}` for the exit codes of the model
CodeString(code) == IF code = 1 THEN "1" ELSE IF code = 2 THEN "2" ELSE "0"

\* the error of the 'close' handler's non-zero exit path
CliExitMessage(code, stderr) ==
    "CLI exited with code " \o CodeString(code) \o ": " \o stderr

\* the message of the error Node emits when the executable cannot be started
SpawnErrorMessage == "spawn claude ENOENT"

\* ----------------------------------------------------------- memory markers
WordChars ==
    {UpperCase[i] : i \in 1..26} \cup {LowerCase[i] : i \in 1..26}
    \cup {"0","1","2","3","4","5","6","7","8","9","_"}

CharAt(s, i) == SubSeq(s, i, i)

StartsWith(s, prefix) ==
    Len(s) >= Len(prefix) /\ SubSeq(s, 1, Len(prefix)) = prefix

\* the first position >= i of s whose character is not in set (Len(s)+1 if none)
RECURSIVE SkipWhile(_, _, _)
SkipWhile(s, i, set) ==
    IF i <= Len(s) /\ CharAt(s, i) \in set THEN SkipWhile(s, i + 1, set) ELSE i

\* the first position >= i of s whose character is c (Len(s)+1 if none)
RECURSIVE IndexOf(_, _, _)
IndexOf(s, i, c) ==
    IF i <= Len(s) /\ CharAt(s, i) # c THEN IndexOf(s, i + 1, c) ELSE i

\* the length matched by  \n?  at position i
OptionalNewline(s, i) == IF i <= Len(s) /\ CharAt(s, i) = "\n" THEN 1 ELSE 0

\* the length of the match of /\[MEMORY:\w+=[^\]]+\]\n?/ at the start of s, 0 if none
MemoryMarkerLength(s) ==
    IF ~StartsWith(s, "[MEMORY:") THEN 0
    ELSE LET k == SkipWhile(s, 9, WordChars)
             e == IndexOf(s, k + 1, "]")
         IN  IF k > 9 /\ k <= Len(s) /\ CharAt(s, k) = "=" /\ e > k + 1 /\ e <= Len(s)
             THEN e + OptionalNewline(s, e + 1)
             ELSE 0

\* the length of the match of /\[MEMORY_COMPACT:[\s\S]*?\]\n?/ at the start of s
CompactMarkerLength(s) ==
    IF ~StartsWith(s, "[MEMORY_COMPACT:") THEN 0
    ELSE LET e == IndexOf(s, 17, "]")
         IN  IF e <= Len(s) THEN e + OptionalNewline(s, e + 1) ELSE 0

RECURSIVE RemoveMemoryMarkers(_)
RemoveMemoryMarkers(s) ==
    IF Len(s) = 0 THEN ""
    ELSE IF MemoryMarkerLength(s) > 0
         THEN RemoveMemoryMarkers(SubSeq(s, MemoryMarkerLength(s) + 1, Len(s)))
         ELSE CharAt(s, 1) \o RemoveMemoryMarkers(SubSeq(s, 2, Len(s)))

RECURSIVE RemoveCompactMarkers(_)
RemoveCompactMarkers(s) ==
    IF Len(s) = 0 THEN ""
    ELSE IF CompactMarkerLength(s) > 0
         THEN RemoveCompactMarkers(SubSeq(s, CompactMarkerLength(s) + 1, Len(s)))
         ELSE CharAt(s, 1) \o RemoveCompactMarkers(SubSeq(s, 2, Len(s)))

\* memoryManager.stripMemoryMarkers
StripMemoryMarkers(text) == Trim(RemoveCompactMarkers(RemoveMemoryMarkers(text)))

\* memoryManager.extractMemoryFromResponse: the updates [key, value] of the
\* markers of text, in order
RECURSIVE ExtractMemoryFromResponse(_)
ExtractMemoryFromResponse(s) ==
    IF Len(s) = 0 THEN <<>>
    ELSE IF MemoryMarkerLength(s) > 0
         THEN LET k == SkipWhile(s, 9, WordChars)
                  e == IndexOf(s, k + 1, "]")
              IN  <<[key |-> SubSeq(s, 9, k - 1),
                     value |-> Trim(SubSeq(s, k + 1, e - 1))]>>
                  \o ExtractMemoryFromResponse(SubSeq(s, e + 1, Len(s)))
         ELSE ExtractMemoryFromResponse(SubSeq(s, 2, Len(s)))

\* ------------------------------------------------------------ stream parser
\* A line of output is [raw |-> text] when JSON.parse throws on it and
\* [json |-> value] when it parses; a value is a record of the fields it has.
IsJson(line) == "json" \in DOMAIN line

\* line.trim() is truthy
NonBlank(line) == IsJson(line) \/ Trim(line.raw) # ""

Has(obj, f) == f \in DOMAIN obj

RECURSIVE JoinTexts(_)
\* content.filter(c => c.type === 'text').map(c => c.text).join('\n')
JoinTexts(content) ==
    LET texts == SelectSeq(content, LAMBDA c : c.type = "text")
    IN  IF Len(texts) = 0 THEN ""
        ELSE IF Len(texts) = 1 THEN texts[1].text
        ELSE texts[1].text \o "\n" \o JoinTexts(Tail(texts))

\* a loop that keeps the session identifier of the first Init record
ParseLineKeepsFirstInit(acc, line) ==
    IF ~IsJson(line) THEN acc
    ELSE LET json == line.json
         IN  IF ~Has(json, "type") THEN acc
             ELSE IF json.type = "system" /\ Has(json, "subtype") /\ json.subtype = "init"
                  THEN IF acc.parsedSessionId # None THEN acc
                       ELSE [acc EXCEPT !.parsedSessionId =
                                IF Has(json, "session_id") THEN json.session_id ELSE None]
             ELSE IF json.type = "assistant"
                  THEN IF ~Has(json, "message") THEN acc
                       ELSE IF Has(json.message, "content") /\ Len(json.message.content) > 0
                            THEN [acc EXCEPT !.text = JoinTexts(json.message.content)]
                            ELSE acc
             ELSE IF json.type = "result"
                  THEN IF acc.text = "" /\ Has(json, "result") /\ json.result # ""
                       THEN [acc EXCEPT !.text = json.result]
                       ELSE acc
             ELSE acc

\* a loop in which the text of a Result record replaces the text accumulated
ParseLineResultOverwrites(acc, line) ==
    IF ~IsJson(line) THEN acc
    ELSE LET json == line.json
         IN  IF ~Has(json, "type") THEN acc
             ELSE IF json.type = "system" /\ Has(json, "subtype") /\ json.subtype = "init"
                  THEN [acc EXCEPT !.parsedSessionId =
                            IF Has(json, "session_id") THEN json.session_id ELSE None]
             ELSE IF json.type = "assistant"
                  THEN IF ~Has(json, "message") THEN acc
                       ELSE IF Has(json.message, "content") /\ Len(json.message.content) > 0
                            THEN [acc EXCEPT !.text = JoinTexts(json.message.content)]
                            ELSE acc
             ELSE IF json.type = "result"
                  THEN IF Has(json, "result") /\ json.result # ""
                       THEN [acc EXCEPT !.text = json.result]
                       ELSE acc
             ELSE acc

\* a loop in which a line that is not JSON discards what was accumulated
ParseLineNoiseResets(acc, line) ==
    IF ~IsJson(line) THEN [text |-> "", parsedSessionId |-> None]
    ELSE LET json == line.json
         IN  IF ~Has(json, "type") THEN acc
             ELSE IF json.type = "system" /\ Has(json, "subtype") /\ json.subtype = "init"
                  THEN [acc EXCEPT !.parsedSessionId =
                            IF Has(json, "session_id") THEN json.session_id ELSE None]
             ELSE IF json.type = "assistant"
                  THEN IF ~Has(json, "message") THEN acc
                       ELSE IF Has(json.message, "content") /\ Len(json.message.content) > 0
                            THEN [acc EXCEPT !.text = JoinTexts(json.message.content)]
                            ELSE acc
             ELSE IF json.type = "result"
                  THEN IF acc.text = "" /\ Has(json, "result") /\ json.result # ""
                       THEN [acc EXCEPT !.text = json.result]
                       ELSE acc
             ELSE acc

\* one iteration of parseOutput's loop on the accumulator [text, parsedSessionId]
ParseLine(acc, line) ==
    IF ~IsJson(line) THEN acc
    ELSE LET json == line.json
         IN  IF ~Has(json, "type") THEN acc
             ELSE IF json.type = "system" /\ Has(json, "subtype") /\ json.subtype = "init"
                  THEN [acc EXCEPT !.parsedSessionId =
                            IF Has(json, "session_id") THEN json.session_id ELSE None]
             ELSE IF json.type = "assistant"
                  THEN IF ~Has(json, "message") THEN acc
                       ELSE IF Has(json.message, "content") /\ Len(json.message.content) > 0
                            THEN [acc EXCEPT !.text = JoinTexts(json.message.content)]
                            ELSE acc
             ELSE IF json.type = "result"
                  THEN IF acc.text = "" /\ Has(json, "result") /\ json.result # ""
                       THEN [acc EXCEPT !.text = json.result]
                       ELSE acc
             ELSE acc

RECURSIVE ParseLines(_, _)
ParseLines(acc, lines) ==
    IF Len(lines) = 0 THEN acc
    ELSE ParseLines(ParseLine(acc, Head(lines)), Tail(lines))

\* parseOutput(stdout): [text, parsedSessionId, memoryUpdates]
ParseOutput(stdout) ==
    LET lines == SelectSeq(stdout, NonBlank)
        acc == ParseLines([text |-> "", parsedSessionId |-> None], lines)
    IN  [text |-> StripMemoryMarkers(acc.text),
         parsedSessionId |-> acc.parsedSessionId,
         memoryUpdates |-> ExtractMemoryFromResponse(acc.text)]

\* ------------------------------------------------------------ memory store
\* memory.data as the set of its <<key, value>> pairs
KeyCount(data) == Cardinality({p[1] : p \in data})
TotalValueCount(data) == Cardinality(data)

\* memoryManager.needsCompaction
NeedsCompaction(data) ==
    \/ KeyCount(data) > COMPACTION_KEY_THRESHOLD
    \/ TotalValueCount(data) > COMPACTION_VALUE_THRESHOLD

RECURSIVE ApplyMemoryUpdates(_, _)
\* memoryManager.applyMemoryUpdates: a value is added to its key unless the
\* key already holds it
ApplyMemoryUpdates(data, updates) ==
    IF Len(updates) = 0 THEN data
    ELSE ApplyMemoryUpdates(data \cup {<<Head(updates).key, Head(updates).value>>},
                            Tail(updates))

\* ------------------------------------------------------------------ inputs
Subjects == {"math", "science"}
SessionIds == {"s1", "s2"}

\* the subject of a ClaudeBridge that was never given another
DefaultSubjects == {"math"}

\* the arguments of chat(): a resume identifier (or none) and a subject
ChatSessionIds == {None, "s1"}

InitLine(sid) ==
    [json |-> [type |-> "system", subtype |-> "init", session_id |-> sid]]
AssistantLine(content) ==
    [json |-> [type |-> "assistant", message |-> [content |-> content]]]
ResultLine(result, isError) ==
    [json |-> [type |-> "result", result |-> result, is_error |-> isError]]
TextItem(text) == [type |-> "text", text |-> text]

\* what a backend process that exits with code 0 has written to its output
Stdouts ==
    { <<InitLine("s1"), AssistantLine(<<TextItem("hello")>>), ResultLine("hello", FALSE)>>,
      <<InitLine("s2"), [raw |-> "debug"], ResultLine("hi", FALSE)>>,
      <<ResultLine("", TRUE)>> }

\* a content item that is not text
ToolUseItem == [type |-> "tool_use", name |-> "Read"]

\* the lines a backend can write: the three kinds of record, an Assistant
\* record with several items, with no item and with no text item, a line of
\* debug output and an empty line
ParserLines ==
    { InitLine("s1"),
      AssistantLine(<<TextItem("hello")>>),
      AssistantLine(<<TextItem("bye"), ToolUseItem, TextItem("now")>>),
      AssistantLine(<<>>),
      AssistantLine(<<ToolUseItem>>),
      ResultLine("fallback text", FALSE),
      ResultLine("", TRUE),
      [raw |-> "debug"],
      [raw |-> ""] }

\* every output of at most MaxLines such lines
ParserStdouts == UNION {[1..n -> ParserLines] : n \in 0..MaxLines}

\* every output of at most MaxLines lines of a backend that announces its
\* session more than once, or not at all
InitLines == {InitLine("s1"), InitLine("s2"), AssistantLine(<<TextItem("hello")>>)}
InitStdouts == UNION {[1..n -> InitLines] : n \in 0..MaxLines}

\* the same, of a backend that also records a fact about the student
MemoryStdouts ==
    { <<InitLine("s1"), AssistantLine(<<TextItem("hi\n[MEMORY:name=Kim]")>>)>> }

\* what a backend process that exits with a non-zero code has written to
\* its error output
Stderrs == {"boom", "upstream timeout"}

ExitCodes == {0, 1}

\* a memory file that holds more keys than the compaction threshold
KeyNames == <<"k1", "k2", "k3", "k4", "k5", "k6", "k7", "k8", "k9", "k10", "k11",
             "k12", "k13", "k14", "k15", "k16", "k17", "k18", "k19", "k20", "k21">>
LargeMemory == {<<KeyNames[k], "v">> : k \in 1..(COMPACTION_KEY_THRESHOLD + 1)}

\* the memory a successful compaction leaves
CompactedMemory == {<<"name", "Kim">>}

\* every error message an attempt of the model can fail with
ErrorMessages ==
    {TimedOutMessage, SpawnErrorMessage}
    \cup {CliExitMessage(code, stderr) : code \in ExitCodes \ {0}, stderr \in Stderrs}

\* isRetryableError and parseOutput on the inputs of the model, evaluated once
Retryable == [m \in ErrorMessages |-> IsRetryableError(m)]
Parsed ==
    [stdout \in Stdouts \cup MemoryStdouts \cup ParserStdouts \cup InitStdouts |->
        ParseOutput(stdout)]

\* ------------------------------------------------------------------- state
VARIABLES
    queue,             \* ClaudeBridge.queue: the identifiers of the waiting requests
    processing,        \* ClaudeBridge.processing
    currentSessionId,  \* ClaudeBridge.currentSessionId
    currentSubject,    \* ClaudeBridge.currentSubject
    circuitBreaker,    \* ClaudeBridge.circuitBreaker
    requests,          \* each chat() call: its request, and the locals of the
                       \* worker iteration and of the executeQuery call serving it
    graceTimers,       \* the pending kill-escalation timers
    compactions,       \* the live executeCompactionQuery calls
    memory,            \* memoryManager.memory.data
    nextId,            \* the number of the next chat() call
    nCompactions,      \* the number of compaction queries started
    answers,           \* for each chat() call, how many answers its caller got
    outcomes,          \* for each chat() call, the successes and failures the
                       \* breaker was told of on its behalf
    lastResponse,      \* the answer a caller got in the last step, if any, and the
                       \* number of attempts made for it
    lastArgs,          \* the arguments of the process spawned in the last step, if any
    lastError,         \* the message of the error an attempt failed with in the last step, if any
    halfOpenAdmitted,  \* the chat() calls admitted since the breaker went Half-Open
    lastParse,         \* the output parseOutput() was applied to in the last step, if any
    lastCircuitState,  \* what getCircuitState() returned in the last step, if called
    spawnedAfterReset, \* resetNoted as the process of the last step was spawned, if one was
    resetNoted,        \* whether resetSession() was observed since the last spawn:
                       \* "busy" or "idle" as a backend process was alive at the
                       \* call or not, None otherwise
    consecFails        \* the failures recorded since the last recorded success

vars == <<queue, processing, currentSessionId, currentSubject, circuitBreaker,
          requests, graceTimers, compactions, memory, nextId, nCompactions,
          answers, outcomes, lastResponse, lastArgs, lastError,
          halfOpenAdmitted, lastParse, lastCircuitState,
          spawnedAfterReset, resetNoted, consecFails>>

\* the numbers of the chat() calls
MaxId == LET n == {MaxRequests, MaxFifoRequests, MaxLiveRequests,
                   MaxSessionRequests, MaxCompactionRequests}
         IN  CHOOSE m \in n : \A k \in n : k <= m
Ids == 1..MaxId

\* a chat() call that has not been made, or has been answered
Blank(pc) ==
    [pc |-> pc, sessionId |-> None, subject |-> None, args |-> <<>>,
     attempt |-> 0, clock |-> 0,
     timeout |-> FALSE, killed |-> FALSE, childKilled |-> FALSE, sigkill |-> FALSE]

NoResponse ==
    [id |-> 0, kind |-> None, text |-> "", sessionId |-> None, isError |-> FALSE,
     attempts |-> 0]
NoArgs == <<>>
NoParse == [called |-> FALSE, stdout |-> <<>>]

\* the part of the state the broker's handlers read and write, at the start
\* of a step: nothing answered and nothing spawned in it yet
State ==
    [queue |-> queue, processing |-> processing,
     currentSessionId |-> currentSessionId, currentSubject |-> currentSubject,
     circuitBreaker |-> circuitBreaker, requests |-> requests,
     graceTimers |-> graceTimers, memory |-> memory, answers |-> answers,
     outcomes |-> outcomes,
     lastResponse |-> NoResponse, lastArgs |-> NoArgs, lastError |-> None,
     lastParse |-> NoParse, lastCircuitState |-> None, spawnedAfterReset |-> None,
     halfOpenAdmitted |-> halfOpenAdmitted, resetNoted |-> resetNoted,
     consecFails |-> consecFails]

Commit(s) ==
    /\ queue' = s.queue
    /\ processing' = s.processing
    /\ currentSessionId' = s.currentSessionId
    /\ currentSubject' = s.currentSubject
    /\ circuitBreaker' = s.circuitBreaker
    /\ requests' = s.requests
    /\ graceTimers' = s.graceTimers
    /\ memory' = s.memory
    /\ answers' = s.answers
    /\ outcomes' = s.outcomes
    /\ lastResponse' = s.lastResponse
    /\ lastArgs' = s.lastArgs
    /\ lastError' = s.lastError
    /\ halfOpenAdmitted' = s.halfOpenAdmitted
    /\ lastParse' = s.lastParse
    /\ lastCircuitState' = s.lastCircuitState
    /\ spawnedAfterReset' = s.spawnedAfterReset
    /\ resetNoted' = s.resetNoted
    /\ consecFails' = s.consecFails

\* ---------------------------------------------------------------- handlers
DISALLOWED_TOOLS ==
    "Bash,Edit,Write,Read,Glob,Grep,Task,WebFetch,WebSearch,LS,MultiEdit,NotebookEdit,TodoWrite"

\* getSystemPrompt(subject): the prompt text stands for itself
SystemPrompt(subject) == "prompt:" \o subject

\* buildArgs(isNewSession, subject), reading this.currentSessionId
\* buildArgs that passes the instruction text and the deny-list to a
\* resumed session too
BuildArgsWithPrompt(isNewSession, subject, sessionId) ==
    <<"-p", "--output-format", "stream-json", "--verbose", "--model", "haiku",
      "--append-system-prompt", SystemPrompt(subject),
      "--disallowedTools", DISALLOWED_TOOLS>>
    \o (IF isNewSession THEN <<>> ELSE <<"--resume", sessionId>>)

BuildArgs(isNewSession, subject, sessionId) ==
    <<"-p", "--output-format", "stream-json", "--verbose", "--model", "haiku">>
    \o (IF isNewSession
        THEN <<"--append-system-prompt", SystemPrompt(subject),
               "--disallowedTools", DISALLOWED_TOOLS>>
        ELSE <<"--resume", sessionId>>)

\* executeQuery that keeps the tracked session whatever the request asks for
ExecuteQueryKeepsSession(s, id) ==
    LET r == s.requests[id]
        subject == IF r.subject # None THEN r.subject ELSE "math"
        isNewSession == s.currentSessionId = None
    IN  [s EXCEPT
            !.lastArgs = BuildArgs(isNewSession, subject, s.currentSessionId),
            !.spawnedAfterReset = s.resetNoted,
            !.resetNoted = None,
            !.requests[id] = [r EXCEPT !.pc = "exec", !.clock = 0, !.timeout = TRUE,
                                       !.args = BuildArgs(isNewSession, subject,
                                                          s.currentSessionId),
                                       !.killed = FALSE, !.childKilled = FALSE,
                                       !.sigkill = FALSE]]

\* executeQuery(request) up to the return of the promise: the session
\* decision, the argument list, the spawn and the arming of the timeout
ExecuteQuery(s, id) ==
    LET r == s.requests[id]
        subject == IF r.subject # None THEN r.subject ELSE "math"
        clientWantsNewSession == r.sessionId = None
        subjectChanged == r.subject # None /\ r.subject # s.currentSubject
        s1 == IF clientWantsNewSession \/ subjectChanged
              THEN [s EXCEPT !.currentSubject = subject, !.currentSessionId = None]
              ELSE s
        isNewSession == s1.currentSessionId = None
    IN  [s1 EXCEPT
            !.lastArgs = BuildArgs(isNewSession, subject, s1.currentSessionId),
            !.spawnedAfterReset = s.resetNoted,
            !.resetNoted = None,
            !.requests[id] = [r EXCEPT !.pc = "exec", !.clock = 0, !.timeout = TRUE,
                                       !.args = BuildArgs(isNewSession, subject,
                                                          s1.currentSessionId),
                                       !.killed = FALSE, !.childKilled = FALSE,
                                       !.sigkill = FALSE]]

\* processQueue() that does not look at the processing flag
ProcessQueueReturnsUnguarded(s) == Len(s.queue) = 0

\* processQueue(): the early return
ProcessQueueReturns(s) == s.processing \/ Len(s.queue) = 0

\* queue.pop() in the place of queue.shift()
ShiftFromEnd(q) == [request |-> q[Len(q)], rest |-> SubSeq(q, 1, Len(q) - 1)]

\* a shift that leaves the request in the queue
ShiftKeeps(q) == [request |-> Head(q), rest |-> q]

\* queue.shift(): the request taken and the queue left
Shift(q) == [request |-> Head(q), rest |-> Tail(q)]

\* processQueue() up to its await: executeWithRetry starts attempt 0
ProcessQueue(s) ==
    IF ProcessQueueReturns(s) THEN s
    ELSE LET id == Shift(s.queue).request
         IN  ExecuteQuery([s EXCEPT !.processing = TRUE,
                                    !.queue = Shift(s.queue).rest,
                                    !.requests[id].attempt = 0], id)

\* request.resolve / request.reject, and the caller receiving the answer
\* (with the number of attempts that were made for it)
Settle(s, id, kind, text, sessionId, isError) ==
    [s EXCEPT !.answers[id] = @ + 1,
              !.lastResponse = [id |-> id, kind |-> kind, text |-> text,
                                sessionId |-> sessionId, isError |-> isError,
                                attempts |-> IF kind = "degraded" THEN 0
                                             ELSE s.requests[id].attempt + 1],
              !.requests[id] = Blank(IF kind = "degraded" THEN "refused" ELSE "done")]

\* processQueue() that does not call itself again after its await
ProcessQueueResumeStops(s) == [s EXCEPT !.processing = FALSE]

\* processQueue() after its await
ProcessQueueResume(s) == ProcessQueue([s EXCEPT !.processing = FALSE])

\* circuitBreaker.recordSuccess() as executeWithRetry calls it for request id
OnSuccess(s, id) ==
    [s EXCEPT !.circuitBreaker = RecordSuccess(@), !.halfOpenAdmitted = 0,
              !.consecFails = 0, !.outcomes[id].successes = @ + 1]

\* circuitBreaker.recordFailure() as executeWithRetry calls it for request id
OnFailure(s, id) ==
    [s EXCEPT !.circuitBreaker = RecordFailure(@), !.halfOpenAdmitted = 0,
              !.consecFails = @ + 1, !.outcomes[id].failures = @ + 1]

\* executeWithRetry: the attempt's promise was resolved with a response
AttemptResolved(s, id, text, sessionId) ==
    ProcessQueueResume(Settle(OnSuccess(s, id), id, "resolved", text, sessionId, FALSE))

\* executeWithRetry that retries whatever the error is
AttemptRejectedRetriesAll(s, id, message) ==
    IF s.requests[id].attempt < MAX_RETRIES
    THEN [s EXCEPT !.requests[id].pc = "delay", !.requests[id].clock = 0,
                   !.requests[id].timeout = FALSE, !.lastError = message]
    ELSE ProcessQueueResume(
            Settle(OnFailure([s EXCEPT !.lastError = message], id),
                   id, "rejected", message, None, TRUE))

\* executeWithRetry that records a failure for every failed attempt
AttemptRejectedCountsEach(s, id, message) ==
    IF s.requests[id].attempt < MAX_RETRIES /\ Retryable[message]
    THEN [OnFailure(s, id) EXCEPT
            !.requests[id].pc = "delay", !.requests[id].clock = 0,
            !.requests[id].timeout = FALSE, !.lastError = message]
    ELSE ProcessQueueResume(
            Settle(OnFailure([s EXCEPT !.lastError = message], id),
                   id, "rejected", message, None, TRUE))

\* executeWithRetry: the attempt's promise was rejected with an error
AttemptRejected(s, id, message) ==
    IF s.requests[id].attempt < MAX_RETRIES /\ Retryable[message]
    THEN [s EXCEPT !.requests[id].pc = "delay", !.requests[id].clock = 0,
                   !.requests[id].timeout = FALSE, !.lastError = message]
    ELSE ProcessQueueResume(
            Settle(OnFailure([s EXCEPT !.lastError = message], id),
                   id, "rejected", message, None, TRUE))

\* the 'close' handler of executeQuery
\* a close handler that fails the attempt when a Result record is flagged
\* as an error
OnCloseFailsOnErrorFlag(s, id, code, stdout, stderr) ==
    LET r == s.requests[id]
        parsed == Parsed[stdout]
        flagged == \E k \in 1..Len(stdout) :
                      /\ IsJson(stdout[k])
                      /\ stdout[k].json.type = "result"
                      /\ stdout[k].json.is_error
        s1 == [s EXCEPT !.currentSessionId =
                           IF parsed.parsedSessionId # None
                           THEN parsed.parsedSessionId ELSE @,
                        !.memory = ApplyMemoryUpdates(@, parsed.memoryUpdates)]
    IN  IF r.killed THEN AttemptRejected(s, id, TimedOutMessage)
        ELSE IF code # 0 THEN AttemptRejected(s, id, CliExitMessage(code, stderr))
        ELSE IF flagged
             THEN AttemptRejected([s1 EXCEPT !.lastParse =
                                       [called |-> TRUE, stdout |-> stdout]],
                                  id, CliExitMessage(1, "boom"))
        ELSE AttemptResolved([s1 EXCEPT !.lastParse =
                                  [called |-> TRUE, stdout |-> stdout]],
                             id, parsed.text,
                             IF s1.currentSessionId # None
                             THEN s1.currentSessionId ELSE "")

OnClose(s, id, code, stdout, stderr) ==
    LET r == s.requests[id]
        parsed == Parsed[stdout]
        s1 == [s EXCEPT !.currentSessionId =
                           IF parsed.parsedSessionId # None
                           THEN parsed.parsedSessionId ELSE @,
                        !.memory = ApplyMemoryUpdates(@, parsed.memoryUpdates)]
    IN  IF r.killed THEN AttemptRejected(s, id, TimedOutMessage)
        ELSE IF code # 0 THEN AttemptRejected(s, id, CliExitMessage(code, stderr))
        ELSE AttemptResolved([s1 EXCEPT !.lastParse =
                                  [called |-> TRUE, stdout |-> stdout]],
                             id, parsed.text,
                             IF s1.currentSessionId # None
                             THEN s1.currentSessionId ELSE "")

\* the 'error' handler of executeQuery
OnError(s, id, message) == AttemptRejected(s, id, message)

\* child.kill(signal): whether the signal was delivered, which is what
\* child.killed becomes
Kill(live) == live

\* the timeout callback of executeQuery
OnTimeout(s, id) ==
    LET r == s.requests[id]
        sent == Kill(r.pc = "exec")
    IN  [s EXCEPT !.requests[id] = [r EXCEPT !.killed = TRUE, !.timeout = FALSE,
                                             !.childKilled = sent],
                  !.graceTimers = @ \cup {[id |-> id, attempt |-> r.attempt,
                                           clock |-> 0, childKilled |-> sent]}]

\* the grace-period callback of executeQuery, of the timer g
OnGrace(s, g) ==
    LET r == s.requests[g.id]
        live == r.pc = "exec" /\ r.attempt = g.attempt
    IN  [s EXCEPT !.graceTimers = @ \ {g},
                  !.requests[g.id].sigkill =
                      IF ~g.childKilled /\ Kill(live) THEN TRUE ELSE @]

\* the retry delay of executeWithRetry has passed: the next attempt
OnDelay(s, id) ==
    ExecuteQuery([s EXCEPT !.requests[id].attempt = @ + 1], id)

\* the canned text of the degraded response (Korean in the source)
DegradedText == "<degraded>"

\* chat(message, sessionId, subject), the call numbered id
ChatCall(s, id, sessionId, subject) ==
    LET cb == AfterCanExecute(s.circuitBreaker)
        s1 == [s EXCEPT !.circuitBreaker = cb]
        effectiveSubject == IF subject # None THEN subject ELSE s.currentSubject
    IN  IF ~CanExecute(s.circuitBreaker)
        THEN Settle(s1, id, "degraded", DegradedText,
                    IF sessionId # None THEN sessionId
                    ELSE IF s.currentSessionId # None THEN s.currentSessionId ELSE "",
                    TRUE)
        ELSE ProcessQueue(
                [s1 EXCEPT !.queue = Append(@, id),
                           !.requests[id] = [Blank("queued") EXCEPT
                                                !.sessionId = sessionId,
                                                !.subject = effectiveSubject],
                           !.halfOpenAdmitted =
                               IF cb.state = "HALF_OPEN" THEN @ + 1 ELSE @])

\* getCircuitState() that asks canExecute() first, so that an elapsed
\* cooldown moves the breaker to Half-Open
GetCircuitStateCallRefreshing(s) ==
    LET cb == AfterCanExecute(s.circuitBreaker)
    IN  [s EXCEPT !.circuitBreaker = cb, !.lastCircuitState = GetState(cb)]

\* getCircuitState()
GetCircuitStateCall(s) ==
    [s EXCEPT !.lastCircuitState = GetState(s.circuitBreaker)]

\* resetSession() that clears nothing
ResetSessionCallKeeps(s) == s

\* resetSession() that also forgets the subject
ResetSessionCallClearsSubject(s) ==
    [s EXCEPT !.currentSessionId = None, !.currentSubject = "math"]

\* resetSession()
ResetSessionCall(s) == [s EXCEPT !.currentSessionId = None]

\* -------------------------------------------------------------- compaction
CompactedJson == "{name:Kim}"

\* what a compaction process that exits with code 0 has written
CompactionStdouts ==
    { <<AssistantLine(<<TextItem(CompactedJson)>>), ResultLine(CompactedJson, FALSE)>>,
      <<AssistantLine(<<TextItem("sorry")>>)>>,
      <<>> }

\* one iteration of the loop of executeCompactionQuery's 'close' handler
CompactionLine(text, line) ==
    IF ~IsJson(line) \/ ~Has(line.json, "type") THEN text
    ELSE IF line.json.type = "assistant"
         THEN IF Has(line.json, "message") /\ Has(line.json.message, "content")
                 /\ Len(line.json.message.content) > 0
              THEN JoinTexts(line.json.message.content)
              ELSE text
    ELSE IF line.json.type = "result" /\ text = ""
         THEN IF Has(line.json, "result") THEN line.json.result ELSE ""
    ELSE text

RECURSIVE CompactionText(_, _)
CompactionText(text, lines) ==
    IF Len(lines) = 0 THEN text
    ELSE CompactionText(CompactionLine(text, Head(lines)), Tail(lines))

\* memoryManager.applyCompactedMemory: only CompactedJson decodes to a
\* non-empty object
ApplyCompactedMemory(data, text) ==
    IF text = CompactedJson THEN CompactedMemory ELSE data

\* executeCompactionQuery's 'close' handler and the rest of
\* runCompactionIfNeeded, for a child c: the memory left
CompactionClosed(data, c, code, stdout) ==
    LET text == CompactionText("", SelectSeq(stdout, NonBlank))
    IN  IF c.killed \/ code # 0 \/ text = "" THEN data
        ELSE ApplyCompactedMemory(data, text)

\* ------------------------------------------------------------------ clocks
\* the time left on each pending timer
TimerDistances ==
    {TIMEOUT_MS - requests[i].clock :
        i \in {j \in Ids : requests[j].pc = "exec" /\ requests[j].timeout}}
    \cup {RETRY_DELAY_MS - requests[i].clock :
        i \in {j \in Ids : requests[j].pc = "delay"}}
    \cup {KILL_GRACE_MS - g.clock : g \in graceTimers}
    \cup {COMPACTION_TIMEOUT_MS - compactions[i].clock :
        i \in {j \in DOMAIN compactions : compactions[j].timeout}}

\* the time left until the breaker's cooldown has elapsed
CooldownDistances ==
    IF circuitBreaker.state = "OPEN"
       /\ circuitBreaker.sinceFailure < CIRCUIT_RESET_TIMEOUT_MS
    THEN {CIRCUIT_RESET_TIMEOUT_MS - circuitBreaker.sinceFailure}
    ELSE {}

SetMin(S) == CHOOSE x \in S : \A y \in S : x <= y

\* ----------------------------------------------------------------- actions
Init ==
    /\ queue = <<>>
    /\ processing = FALSE
    /\ currentSessionId = None
    /\ currentSubject = "math"
    /\ circuitBreaker = NewCircuitBreaker
    /\ requests = [i \in Ids |-> Blank("new")]
    /\ graceTimers = {}
    /\ compactions = <<>>
    /\ memory = {}
    /\ nextId = 1
    /\ nCompactions = 0
    /\ answers = [i \in Ids |-> 0]
    /\ outcomes = [i \in Ids |-> [successes |-> 0, failures |-> 0]]
    /\ lastResponse = NoResponse
    /\ lastArgs = NoArgs
    /\ lastError = None
    /\ halfOpenAdmitted = 0
    /\ lastParse = NoParse
    /\ lastCircuitState = None
    /\ spawnedAfterReset = None
    /\ resetNoted = None
    /\ consecFails = 0

\* a caller calls chat() with a subject of subjects, at most maxRequests
\* times in all and with at most maxQueue requests waiting
ChatStep(maxRequests, maxQueue, subjects) ==
    /\ nextId <= maxRequests
    /\ Len(queue) < maxQueue \/ ~CanExecute(circuitBreaker)
    /\ \E sessionId \in ChatSessionIds, subject \in subjects :
          Commit(ChatCall(State, nextId, sessionId, subject))
    /\ nextId' = nextId + 1
    /\ UNCHANGED <<compactions, nCompactions>>

\* chat() under sustained failure, every call for the default subject
Chat == ChatStep(MaxRequests, MaxQueue, DefaultSubjects)

\* a backend process exits with code 0, having written one of stdouts
ChildExitStep(stdouts) ==
    \E id \in Ids, stdout \in stdouts :
        /\ requests[id].pc = "exec"
        /\ Commit(OnClose(State, id, 0, stdout, ""))
        /\ UNCHANGED <<compactions, nCompactions, nextId>>

ChildExitsOk == ChildExitStep(Stdouts)

\* a backend process exits with a non-zero code, or on a signal
ChildExitsFailed ==
    \E id \in Ids, code \in ExitCodes \ {0}, stderr \in Stderrs :
        /\ requests[id].pc = "exec"
        /\ Commit(OnClose(State, id, code, <<>>, stderr))
        /\ UNCHANGED <<compactions, nCompactions, nextId>>

\* the backend executable could not be started
ChildError ==
    \E id \in Ids :
        /\ requests[id].pc = "exec"
        /\ requests[id].clock = 0
        /\ ~requests[id].killed
        /\ Commit(OnError(State, id, SpawnErrorMessage))
        /\ UNCHANGED <<compactions, nCompactions, nextId>>

\* the timeout timer of an attempt fires
TimeoutFires ==
    \E id \in Ids :
        /\ requests[id].pc = "exec"
        /\ requests[id].timeout
        /\ requests[id].clock >= TIMEOUT_MS
        /\ Commit(OnTimeout(State, id))
        /\ UNCHANGED <<compactions, nCompactions, nextId>>

\* a kill-escalation timer fires
GraceFires ==
    \E g \in graceTimers :
        /\ g.clock >= KILL_GRACE_MS
        /\ Commit(OnGrace(State, g))
        /\ UNCHANGED <<compactions, nCompactions, nextId>>

\* the retry delay of a request has passed
DelayFires ==
    \E id \in Ids :
        /\ requests[id].pc = "delay"
        /\ requests[id].clock >= RETRY_DELAY_MS
        /\ Commit(OnDelay(State, id))
        /\ UNCHANGED <<compactions, nCompactions, nextId>>

\* POST /api/reset
ResetSession ==
    /\ Commit(ResetSessionCall(State))
    /\ UNCHANGED <<compactions, nCompactions, nextId>>

\* GET /api/health
GetCircuitState ==
    /\ Commit(GetCircuitStateCall(State))
    /\ UNCHANGED <<compactions, nCompactions, nextId>>

\* POST /api/reset, observed: whether a backend process was alive is noted
ResetSessionObserved ==
    /\ Commit([ResetSessionCall(State) EXCEPT
                  !.resetNoted = IF \E i \in Ids : requests[i].pc = "exec"
                                 THEN "busy" ELSE "idle"])
    /\ UNCHANGED <<compactions, nCompactions, nextId>>

\* POST /api/memory/compact: runCompactionIfNeeded() spawns its process
RunCompaction ==
    /\ nCompactions < MaxCompactions
    /\ NeedsCompaction(memory)
    /\ compactions' = Append(compactions,
                             [clock |-> 0, timeout |-> TRUE, killed |-> FALSE])
    /\ nCompactions' = nCompactions + 1
    /\ UNCHANGED <<queue, processing, currentSessionId, currentSubject,
                   circuitBreaker, requests, graceTimers, memory, nextId, answers,
                   outcomes, halfOpenAdmitted, resetNoted,
                   consecFails>>
    /\ lastResponse' = NoResponse
    /\ lastArgs' = NoArgs
    /\ lastError' = None
    /\ lastParse' = NoParse
    /\ lastCircuitState' = None
    /\ spawnedAfterReset' = None

\* the timeout timer of a compaction query fires
CompactionTimeoutFires ==
    \E i \in DOMAIN compactions :
        /\ compactions[i].timeout
        /\ compactions[i].clock >= COMPACTION_TIMEOUT_MS
        /\ compactions' = [compactions EXCEPT ![i].timeout = FALSE, ![i].killed = TRUE]
        /\ UNCHANGED <<queue, processing, currentSessionId, currentSubject,
                       circuitBreaker, requests, graceTimers, memory, nextId,
                       nCompactions, answers, outcomes, halfOpenAdmitted,
                       resetNoted,
                       consecFails>>
        /\ lastResponse' = NoResponse
        /\ lastArgs' = NoArgs
        /\ lastError' = None
        /\ lastParse' = NoParse
        /\ lastCircuitState' = None
        /\ spawnedAfterReset' = None

\* a compaction process exits
CompactionExits ==
    \E i \in DOMAIN compactions, code \in ExitCodes, stdout \in CompactionStdouts :
        /\ memory' = CompactionClosed(memory, compactions[i], code, stdout)
        /\ compactions' = SubSeq(compactions, 1, i - 1)
                          \o SubSeq(compactions, i + 1, Len(compactions))
        /\ UNCHANGED <<queue, processing, currentSessionId, currentSubject,
                       circuitBreaker, requests, graceTimers, nextId,
                       nCompactions, answers, outcomes, halfOpenAdmitted,
                       resetNoted,
                       consecFails>>
        /\ lastResponse' = NoResponse
        /\ lastArgs' = NoArgs
        /\ lastError' = None
        /\ lastParse' = NoParse
        /\ lastCircuitState' = None
        /\ spawnedAfterReset' = None

\* time passes, up to the next instant at which a timer is due or the
\* breaker's cooldown has elapsed
Tick ==
    /\ 0 \notin TimerDistances
    /\ TimerDistances \cup CooldownDistances # {}
    /\ LET d == SetMin(TimerDistances \cup CooldownDistances)
       IN  /\ requests' =
                [i \in Ids |->
                    IF \/ requests[i].pc = "exec" /\ requests[i].timeout
                       \/ requests[i].pc = "delay"
                    THEN [requests[i] EXCEPT !.clock = @ + d]
                    ELSE requests[i]]
           /\ graceTimers' = {[g EXCEPT !.clock = @ + d] : g \in graceTimers}
           /\ compactions' =
                [i \in DOMAIN compactions |->
                    IF compactions[i].timeout
                    THEN [compactions[i] EXCEPT !.clock = @ + d]
                    ELSE compactions[i]]
           /\ circuitBreaker' =
                IF circuitBreaker.state = "OPEN"
                THEN [circuitBreaker EXCEPT
                        !.sinceFailure = Min(@ + d, CIRCUIT_RESET_TIMEOUT_MS)]
                ELSE circuitBreaker
    /\ lastResponse' = NoResponse
    /\ lastArgs' = NoArgs
    /\ lastError' = None
    /\ lastParse' = NoParse
    /\ lastCircuitState' = None
    /\ spawnedAfterReset' = None
    /\ UNCHANGED <<queue, processing, currentSessionId, currentSubject, memory,
                   nextId, nCompactions, answers, outcomes, halfOpenAdmitted,
                       resetNoted,
                   consecFails>>

\* chat() under the bounds of the queue
ChatFifo == ChatStep(MaxFifoRequests, MaxFifoQueue, DefaultSubjects)

\* chat() while memory compaction is in use
ChatCompacting == ChatStep(MaxCompactionRequests, MaxQueue, Subjects)

\* a backend process exits with code 0, possibly having recorded a fact
ChildExitsRemembering == ChildExitStep(Stdouts \cup MemoryStdouts)

\* the broker
Next ==
    \/ Chat
    \/ ChildExitsOk
    \/ ChildExitsFailed
    \/ ChildError
    \/ TimeoutFires
    \/ GraceFires
    \/ DelayFires
    \/ ResetSession
    \/ Tick

Spec == Init /\ [][Next]_vars

\* the broker's queue
NextFifo ==
    \/ ChatFifo
    \/ ChildExitsOk
    \/ ChildExitsFailed
    \/ ChildError
    \/ TimeoutFires
    \/ GraceFires
    \/ DelayFires
    \/ ResetSession
    \/ Tick

SpecFifo == Init /\ [][NextFifo]_vars

\* the broker when timers fire and a process that is sent SIGKILL exits
ChatLive == ChatStep(MaxLiveRequests, MaxQueue, Subjects)

\* a backend process that has been sent SIGKILL exits
KilledChildExits ==
    \E id \in Ids, code \in ExitCodes \ {0}, stderr \in Stderrs :
        /\ requests[id].pc = "exec"
        /\ requests[id].sigkill
        /\ Commit(OnClose(State, id, code, <<>>, stderr))
        /\ UNCHANGED <<compactions, nCompactions, nextId>>

NextLive ==
    \/ ChatLive
    \/ ChildExitsOk
    \/ ChildExitsFailed
    \/ ChildError
    \/ TimeoutFires
    \/ GraceFires
    \/ DelayFires
    \/ ResetSession
    \/ Tick

SpecLive ==
    /\ Init
    /\ [][NextLive]_vars
    /\ WF_vars(TimeoutFires)
    /\ WF_vars(GraceFires)
    /\ WF_vars(DelayFires)
    /\ WF_vars(Tick)
    /\ WF_vars(KilledChildExits)

\* the broker and memory compaction, from a memory file that needs compaction
InitCompaction ==
    /\ queue = <<>>
    /\ processing = FALSE
    /\ currentSessionId = None
    /\ currentSubject = "math"
    /\ circuitBreaker = NewCircuitBreaker
    /\ requests = [i \in Ids |-> Blank("new")]
    /\ graceTimers = {}
    /\ compactions = <<>>
    /\ memory = LargeMemory
    /\ nextId = 1
    /\ nCompactions = 0
    /\ answers = [i \in Ids |-> 0]
    /\ outcomes = [i \in Ids |-> [successes |-> 0, failures |-> 0]]
    /\ lastResponse = NoResponse
    /\ lastArgs = NoArgs
    /\ lastError = None
    /\ halfOpenAdmitted = 0
    /\ lastParse = NoParse
    /\ lastCircuitState = None
    /\ spawnedAfterReset = None
    /\ resetNoted = None
    /\ consecFails = 0

NextCompaction ==
    \/ ChatCompacting
    \/ ChildExitsRemembering
    \/ ChildExitsFailed
    \/ ChildError
    \/ TimeoutFires
    \/ GraceFires
    \/ DelayFires
    \/ ResetSession
    \/ RunCompaction
    \/ CompactionTimeoutFires
    \/ CompactionExits
    \/ Tick

SpecCompaction == InitCompaction /\ [][NextCompaction]_vars

\* the stream parser on every output of at most MaxLines lines, each parsed
\* by the close handler of the one request that is made: parseOutput() starts
\* from an empty text and no session identifier at every call
ChatParser == ChatStep(1, 1, DefaultSubjects)
ChildExitsParsing == ChildExitStep(ParserStdouts)

NextParser ==
    \/ ChatParser
    \/ ChildExitsParsing

SpecParser == Init /\ [][NextParser]_vars

\* the session identifier across requests, on outputs with any number of
\* Init records
ChatInit == ChatStep(MaxSessionRequests, MaxSessionQueue, DefaultSubjects)
ChildExitsAnnouncing == ChildExitStep(InitStdouts)

NextInit ==
    \/ ChatInit
    \/ ChildExitsAnnouncing
    \/ ResetSession

SpecInit == Init /\ [][NextInit]_vars

\* the daily quota (UsageLimiter), for a server started with one request
\* of the day left in usage.json
DAILY_LIMIT == 200
UsageAtStart == DAILY_LIMIT - 1

\* usage.count: recordRequest() has run once for every chat() call whose
\* promise was fulfilled, with an answer or with the degraded response, and
\* for none whose promise was rejected
UsageCount ==
    UsageAtStart
      + Cardinality({i \in Ids : outcomes[i].successes = 1 \/ requests[i].pc = "refused"})

\* a chat message on the WebSocket: canMakeRequest(), then chat()
ChatQuota ==
    /\ UsageCount < DAILY_LIMIT
    /\ ChatStep(MaxSessionRequests, MaxSessionQueue, DefaultSubjects)

NextQuota ==
    \/ ChatQuota
    \/ ChildExitsOk
    \/ ChildExitsFailed

SpecQuota == Init /\ [][NextQuota]_vars

\* the breaker under sustained failure, with the health endpoint polled
NextHealth ==
    \/ Chat
    \/ ChildExitsOk
    \/ ChildExitsFailed
    \/ ChildError
    \/ TimeoutFires
    \/ GraceFires
    \/ DelayFires
    \/ GetCircuitState
    \/ Tick

SpecHealth == Init /\ [][NextHealth]_vars

\* the broker's session state, with the calls of resetSession() observed
ChatSession == ChatStep(MaxSessionRequests, MaxSessionQueue, Subjects)

NextSession ==
    \/ ChatSession
    \/ ChildExitsOk
    \/ ChildExitsFailed
    \/ ChildError
    \/ TimeoutFires
    \/ GraceFires
    \/ DelayFires
    \/ ResetSessionObserved
    \/ Tick

SpecSession == Init /\ [][NextSession]_vars

\* ------------------------------------------------------------------ claims
Pending(i) == requests[i].pc \in {"queued", "exec", "delay"}
Started(i) == requests[i].pc \in {"exec", "delay", "done"}
QueuedIds == {queue[k] : k \in DOMAIN queue}
\* the requests a worker iteration is serving
ServedIds == {i \in Ids : requests[i].pc \in {"exec", "delay"}}
\* the requests whose backend process is live
ExecutingIds == {i \in Ids : requests[i].pc = "exec"}

\* C1: at most one chat backend process is in flight and at most one worker
\* iteration is active at any instant; a request that arrives while the
\* worker is busy waits in the queue, not started.
C1_SingleFlight ==
    /\ Cardinality(ExecutingIds) <= 1
    /\ Cardinality(ServedIds) <= 1
    /\ \A i \in QueuedIds : requests[i].pc = "queued"
    /\ \A i \in Ids : requests[i].pc = "queued" => i \in QueuedIds

\* C1 witness: a process is live while two later requests wait in the queue
C1_Witness ==
    /\ Cardinality(ExecutingIds) = 1
    /\ Len(queue) = 2

\* C2: no reachable state has two live backend child processes, counting the
\* processes of memory compaction.
C2_OneProcessAtATime ==
    Cardinality(ExecutingIds) + Len(compactions) <= 1

\* C3: requests are served in arrival order, and a request has had all its
\* attempts, has been answered and has had its one outcome recorded on the
\* breaker before the first attempt of a later request starts.
C3_FifoNoInterleaving ==
    \A i, j \in Ids :
        (i < j /\ Started(j)) =>
            /\ requests[i].pc \in {"done", "refused"}
            /\ answers[i] = 1
            /\ requests[i].pc = "done" =>
                  outcomes[i].successes + outcomes[i].failures = 1

\* C3 witness: request 2 is in its retry delay, request 1 is done and
\* two later requests wait
C3_Witness ==
    /\ requests[1].pc = "done"
    /\ requests[2].pc = "delay"
    /\ queue = <<3, 4>>

C5_SettledExactlyOnce ==
    \A i \in Ids :
        /\ answers[i] <= 1
        /\ Pending(i) => answers[i] = 0
        /\ requests[i].pc \in {"done", "refused"} => answers[i] = 1
        /\ requests[i].pc = "done" => i \notin QueuedIds

\* C5 witness: a request was rejected after a retry while others wait
C5_Witness ==
    /\ lastResponse.kind = "rejected"
    /\ answers[lastResponse.id] = 1
    /\ \E i \in Ids : Pending(i)
    /\ \E i \in Ids : answers[i] = 1 /\ outcomes[i].successes = 1

\* C6: every request accepted into the queue is eventually resolved or
\* rejected, when timers fire and a process that is sent SIGKILL exits.
C6_EveryRequestAnswered ==
    \A i \in Ids : Pending(i) ~> (answers[i] >= 1)

\* C7: after 3 consecutive failures the breaker is Open, and from then on
\* canExecute() returns false until the cooldown since the last failure has
\* elapsed: no step other than the passing of time makes it return true.
C7_OpenUntilCooldown ==
    /\ [](consecFails >= CIRCUIT_FAILURE_THRESHOLD => circuitBreaker.state # "CLOSED")
    /\ [][(~CanExecute(circuitBreaker) /\ ~Tick) => ~CanExecute(circuitBreaker')]_vars

\* C8: a success recorded while Closed leaves the breaker Closed with the
\* counter at 0, and the breaker leaves Closed only when 3 failures have
\* been recorded since the last success.
C8_OnlyConsecutiveFailuresCount ==
    [][/\ (circuitBreaker.state = "CLOSED" /\ lastResponse'.kind = "resolved")
            => (circuitBreaker'.state = "CLOSED" /\ circuitBreaker'.failureCount = 0)
       /\ (circuitBreaker.state = "CLOSED" /\ circuitBreaker'.state # "CLOSED")
            => consecFails' >= CIRCUIT_FAILURE_THRESHOLD]_vars

\* C8 witness: a success was just recorded after an earlier failure, and
\* failures were recorded since without opening the breaker
C8_Witness ==
    /\ circuitBreaker.state = "CLOSED"
    /\ consecFails = CIRCUIT_FAILURE_THRESHOLD - 1
    /\ \E i, j \in Ids : /\ i < j
                         /\ outcomes[i].failures = 1
                         /\ outcomes[j].successes = 1

\* C9: while Open, a chat() call before the cooldown has elapsed is refused
\* and leaves the breaker as it is; a call once it has elapsed is admitted
\* and makes the breaker Half-Open.  The state changes only in a chat() call
\* or when an outcome is recorded, never when a timer fires or time passes.
C9_LazyCooldown ==
    [][/\ (nextId' = nextId + 1 /\ circuitBreaker.state = "OPEN") =>
            IF circuitBreaker.sinceFailure < CIRCUIT_RESET_TIMEOUT_MS
            THEN /\ circuitBreaker' = circuitBreaker
                 /\ lastResponse'.kind = "degraded"
                 /\ requests'[nextId].pc = "refused"
            ELSE /\ circuitBreaker'.state = "HALF_OPEN"
                 /\ requests'[nextId].pc \in {"queued", "exec"}
       /\ circuitBreaker'.state # circuitBreaker.state =>
            \/ nextId' = nextId + 1
            \/ lastResponse'.kind \in {"resolved", "rejected"}]_vars

\* C9 witness: a call was refused during the cooldown and a later call, made
\* once the cooldown had elapsed, has moved the breaker to Half-Open
C9_Witness ==
    /\ circuitBreaker.state = "HALF_OPEN"
    /\ halfOpenAdmitted = 1
    /\ \E i \in Ids : requests[i].pc = "refused"

\* C10: Half-Open admits one trial request only: no further chat() call is
\* admitted until the outcome of the trial has been recorded.
C10_OneTrialInHalfOpen ==
    circuitBreaker.state = "HALF_OPEN" => halfOpenAdmitted <= 1

\* C11: in Half-Open a recorded success leaves the breaker Closed with the
\* counter at 0; a recorded failure leaves it Open, whatever the counter,
\* with the time since the last failure at 0, so that canExecute() is false
\* until a full cooldown has passed.
C11_HalfOpenOutcome ==
    [][/\ (circuitBreaker.state = "HALF_OPEN" /\ lastResponse'.kind = "resolved")
            => (circuitBreaker'.state = "CLOSED" /\ circuitBreaker'.failureCount = 0)
       /\ (circuitBreaker.state = "HALF_OPEN" /\ lastResponse'.kind = "rejected")
            => /\ circuitBreaker'.state = "OPEN"
               /\ circuitBreaker'.sinceFailure = 0
               /\ ~CanExecute(circuitBreaker')
       /\ \A n \in 0..CIRCUIT_FAILURE_THRESHOLD :
              RecordFailure([circuitBreaker EXCEPT !.state = "HALF_OPEN",
                                                   !.failureCount = n]).state = "OPEN"]_vars

\* C11 witness: the trial admitted after a refused call has just failed and
\* the breaker is Open again with a fresh cooldown
C11_Witness ==
    /\ lastResponse.kind = "rejected"
    /\ circuitBreaker.state = "OPEN"
    /\ circuitBreaker.sinceFailure = 0
    /\ circuitBreaker.failureCount = CIRCUIT_FAILURE_THRESHOLD + 1
    /\ \E i \in 1..(lastResponse.id - 1) : requests[i].pc = "refused"

\* C12: a chat() call made while the breaker is Open with the cooldown not
\* elapsed is answered in the same step with the degraded response, marked
\* isError and not rejected; nothing is queued, no process is spawned, no
\* attempt is made, and the breaker, the session identifier and the subject
\* stay as they were.
C12_RefusedCallChangesNothing ==
    [][(nextId' = nextId + 1 /\ ~CanExecute(circuitBreaker)) =>
          /\ lastResponse'.id = nextId
          /\ lastResponse'.kind = "degraded"
          /\ lastResponse'.isError
          /\ answers' = [answers EXCEPT ![nextId] = 1]
          /\ queue' = queue
          /\ processing' = processing
          /\ lastArgs' = NoArgs
          /\ lastError' = None
          /\ requests' = [requests EXCEPT ![nextId] = Blank("refused")]
          /\ graceTimers' = graceTimers
          /\ outcomes' = outcomes
          /\ circuitBreaker' = circuitBreaker
          /\ currentSessionId' = currentSessionId
          /\ currentSubject' = currentSubject]_vars

\* C12 witness: a call was just refused part of the way through the cooldown,
\* while another request is still being served
C12_Witness ==
    /\ lastResponse.kind = "degraded"
    /\ lastResponse.isError
    /\ circuitBreaker.state = "OPEN"
    /\ circuitBreaker.sinceFailure > 0
    /\ circuitBreaker.sinceFailure < CIRCUIT_RESET_TIMEOUT_MS
    /\ ServedIds # {}

\* C13: no backend process is spawned while the breaker is Open with the
\* cooldown not elapsed, not even for a request that was waiting in the
\* queue when the breaker opened: a step that spawns a process leaves a
\* breaker whose canExecute() is true.
C13_NoSpawnWhileOpen ==
    lastArgs # NoArgs => CanExecute(circuitBreaker)

\* C14: a request has between 1 and 3 attempts: it is settled only while an
\* attempt of it is running, its attempts are numbered 0..MAX_RETRIES, the
\* first starts when it is dequeued, and attempt k+1 starts only after
\* attempt k failed with an error that isRetryableError accepts, with k
\* below the maximum, and after the retry delay has run in full since then.
C14_BoundedRetries ==
    [][\A i \in Ids :
          /\ requests'[i].attempt \in 0..MAX_RETRIES
          /\ (requests[i].pc # "exec" /\ requests'[i].pc = "exec") =>
                \/ /\ requests[i].pc \in {"new", "queued"}
                   /\ requests'[i].attempt = 0
                \/ /\ requests[i].pc = "delay"
                   /\ requests[i].clock >= RETRY_DELAY_MS
                   /\ requests'[i].attempt = requests[i].attempt + 1
          /\ (requests[i].pc = "exec" /\ requests'[i].pc = "exec") =>
                requests'[i].attempt = requests[i].attempt
          /\ (requests[i].pc # "delay" /\ requests'[i].pc = "delay") =>
                /\ requests[i].pc = "exec"
                /\ requests[i].attempt < MAX_RETRIES
                /\ requests'[i].attempt = requests[i].attempt
                /\ requests'[i].clock = 0
                /\ lastError' # None
                /\ IsRetryableError(lastError')
          /\ (requests[i].pc = "delay" /\ requests'[i].pc = "delay") =>
                requests'[i].clock >= requests[i].clock
          /\ (requests[i].pc # "done" /\ requests'[i].pc = "done") =>
                requests[i].pc = "exec"]_vars

\* C14 witness: the third attempt of a request is running
C14_Witness ==
    \E i \in Ids : requests[i].pc = "exec" /\ requests[i].attempt = MAX_RETRIES

\* C15: an attempt that ends through the timeout path fails with an error
\* the retry policy accepts: when it is not the last attempt, the request
\* goes into its retry delay and is not rejected.
C15_TimeoutIsRetried ==
    [][\A i \in Ids :
          (/\ requests[i].pc = "exec"
           /\ requests[i].killed
           /\ requests[i].attempt < MAX_RETRIES
           /\ requests'[i].pc # "exec")
              => /\ requests'[i].pc = "delay"
                 /\ IsRetryableError(lastError')
                 /\ answers'[i] = answers[i]]_vars

\* C16: an attempt that ends with a non-zero exit code, not through the
\* timeout path, is never retried, whatever the backend wrote to its error
\* output: the step in which it ends rejects the caller with that error.
C16_ExitErrorNotRetried ==
    (lastError # None /\ StartsWith(lastError, "CLI exited with code "))
        => /\ lastResponse.kind = "rejected"
           /\ lastResponse.text = lastError

\* C17: when the first attempt of a request failed with a retryable error
\* and the second succeeds, the caller gets the successful response, one
\* success and no failure is recorded on the breaker for the request, and
\* no further attempt is made: nothing is recorded while a request is being
\* served, and a finished request stays finished.
C17_RetryThenSuccess ==
    [][\A i \in Ids :
          /\ requests[i].pc \in {"exec", "delay"} =>
                outcomes[i] = [successes |-> 0, failures |-> 0]
          /\ (/\ requests[i].pc = "exec"
              /\ requests[i].attempt = 1
              /\ requests'[i].pc # "exec"
              /\ lastError' = None)
                => /\ lastResponse'.id = i
                   /\ lastResponse'.kind = "resolved"
                   /\ ~lastResponse'.isError
                   /\ lastResponse'.attempts = 2
                   /\ answers'[i] = 1
                   /\ outcomes'[i] = [successes |-> 1, failures |-> 0]
                   /\ requests'[i].pc = "done"
                   /\ circuitBreaker'.state = "CLOSED"
                   /\ circuitBreaker'.failureCount = 0
          /\ requests[i].pc = "done" =>
                /\ requests'[i].pc = "done"
                /\ outcomes'[i] = outcomes[i]]_vars

\* C17 witness: a request was just resolved by its second attempt
C17_Witness ==
    /\ lastResponse.kind = "resolved"
    /\ lastResponse.attempts = 2
    /\ outcomes[lastResponse.id] = [successes |-> 1, failures |-> 0]

\* C18: when the first attempt of a request fails with an error that
\* isRetryableError does not accept, the same step rejects the caller with
\* that error after this one attempt, with no delay, and records exactly one
\* failure on the breaker.
C18_FatalErrorRejectsAtOnce ==
    [][\A i \in Ids :
          (/\ requests[i].pc = "exec"
           /\ requests[i].attempt = 0
           /\ lastError' # None
           /\ ~IsRetryableError(lastError'))
              => /\ lastResponse'.id = i
                 /\ lastResponse'.kind = "rejected"
                 /\ lastResponse'.text = lastError'
                 /\ lastResponse'.attempts = 1
                 /\ answers'[i] = 1
                 /\ requests'[i].pc = "done"
                 /\ outcomes'[i] = [successes |-> 0, failures |-> 1]
                 /\ circuitBreaker'.failureCount = circuitBreaker.failureCount + 1
                 /\ consecFails' = consecFails + 1]_vars

\* C18 witness: a request was just rejected with the exit error of its
\* first attempt
C18_Witness ==
    /\ lastResponse.kind = "rejected"
    /\ lastResponse.attempts = 1
    /\ lastResponse.text = CliExitMessage(1, "boom")
    /\ outcomes[lastResponse.id] = [successes |-> 0, failures |-> 1]

\* C19: a request the worker has executed has exactly one outcome on the
\* breaker: a success when it was resolved, a failure when it was rejected.
\* A request whose third attempt fails is rejected with the error of that
\* attempt and adds 1 to the failure counter, not 3.
C19_OneOutcomePerRequest ==
    [][\A i \in Ids :
          /\ requests'[i].pc = "done" =>
                outcomes'[i].successes + outcomes'[i].failures = 1
          /\ (lastResponse'.id = i /\ lastResponse'.kind = "resolved") =>
                outcomes'[i] = [successes |-> 1, failures |-> 0]
          /\ (lastResponse'.id = i /\ lastResponse'.kind = "rejected") =>
                /\ outcomes'[i] = [successes |-> 0, failures |-> 1]
                /\ lastResponse'.text = lastError'
          /\ (/\ requests[i].pc = "exec"
              /\ requests[i].attempt = MAX_RETRIES
              /\ lastError' # None)
                => /\ lastResponse'.id = i
                   /\ lastResponse'.kind = "rejected"
                   /\ lastResponse'.attempts = MAX_RETRIES + 1
                   /\ circuitBreaker'.failureCount = circuitBreaker.failureCount + 1
                   /\ consecFails' = consecFails + 1]_vars

\* C19 witness: the first request was just rejected after three attempts
\* and the failure counter is 1
C19_Witness ==
    /\ lastResponse.kind = "rejected"
    /\ lastResponse.attempts = MAX_RETRIES + 1
    /\ outcomes[lastResponse.id] = [successes |-> 0, failures |-> 1]
    /\ circuitBreaker.failureCount = 1

\* C20: when an attempt reaches the 60 s timeout SIGTERM is sent to its
\* process, and when the grace timer armed then fires 5 s later with that
\* process still not exited, SIGKILL is sent to it.
C20_KillEscalation ==
    [][/\ \A i \in Ids :
            (/\ requests[i].pc = "exec"
             /\ requests[i].timeout
             /\ requests[i].clock >= TIMEOUT_MS
             /\ requests'[i].pc = "exec"
             /\ ~requests'[i].timeout)
                => /\ requests'[i].childKilled
                   /\ \E g \in graceTimers' : g.id = i /\ g.clock = 0
       /\ \A g \in graceTimers :
            (/\ g.clock >= KILL_GRACE_MS
             /\ g \notin graceTimers'
             /\ requests[g.id].pc = "exec"
             /\ requests[g.id].attempt = g.attempt
             /\ requests[g.id].killed)
                => requests'[g.id].sigkill]_vars

\* the two shapes of an argument list: a new session is given the
\* instruction text and the tool deny-list and no resume directive, a
\* resumed one the resume directive with the session identifier and neither
\* of the other two
NewSessionArgs(args) ==
    /\ \E k \in 1..(Len(args) - 1) :
          args[k] = "--append-system-prompt" /\ args[k + 1] \in {SystemPrompt(t) : t \in Subjects}
    /\ \E k \in 1..(Len(args) - 1) :
          args[k] = "--disallowedTools" /\ args[k + 1] = DISALLOWED_TOOLS
    /\ \A k \in 1..Len(args) : args[k] # "--resume"
ResumeArgs(args, sessionId) ==
    /\ \E k \in 1..(Len(args) - 1) : args[k] = "--resume" /\ args[k + 1] = sessionId
    /\ \A k \in 1..Len(args) :
          args[k] \notin {"--append-system-prompt", "--disallowedTools"}

\* C21: when resetSession() is called while no backend process is alive, the
\* next process that is spawned is given the arguments of a new session
\* (instruction text and deny-list, no resume directive), whether or not
\* the request it serves carries a resume identifier.
C21_ResetWhileIdle ==
    spawnedAfterReset = "idle" => NewSessionArgs(lastArgs)

\* a request that carries a resume identifier was spawned as a new session
\* after a reset made while no process was alive
C21_Witness ==
    /\ spawnedAfterReset = "idle"
    /\ NewSessionArgs(lastArgs)
    /\ \E i \in Ids : requests[i].pc = "exec" /\ requests[i].sessionId # None

C23_SessionDecision ==
    [][\A i \in Ids :
          (requests[i].pc # "exec" /\ requests'[i].pc = "exec") =>
              LET r == requests'[i]
                  tracked == IF lastParse'.called
                             THEN IF lastResponse'.sessionId = ""
                                  THEN None ELSE lastResponse'.sessionId
                             ELSE currentSessionId
              IN  IF r.subject # currentSubject \/ r.sessionId = None
                  THEN /\ currentSessionId' = None
                       /\ currentSubject' = r.subject
                       /\ NewSessionArgs(lastArgs')
                  ELSE /\ currentSubject' = currentSubject
                       /\ currentSessionId' = tracked
                       /\ tracked # None => ResumeArgs(lastArgs', tracked)
                       /\ tracked = None => NewSessionArgs(lastArgs')]_vars

\* a request that asks to resume on another subject than the tracked one was
\* spawned as a new session with its own subject
C23_Witness ==
    /\ lastArgs # NoArgs
    /\ NewSessionArgs(lastArgs)
    /\ currentSubject = "science"
    /\ currentSessionId = None
    /\ \E i \in Ids : /\ requests[i].pc = "exec"
                      /\ requests[i].sessionId # None
                      /\ requests[i].subject = "science"

C25_SessionStateFrame ==
    [][<<currentSessionId, currentSubject>>' # <<currentSessionId, currentSubject>>
          => \/ lastParse'.called
             \/ lastArgs' = NoArgs /\ lastResponse' = NoResponse]_vars

\* C25 as the code has it: the tracked session identifier and subject change
\* only in a step in which a backend invocation succeeds, in a call of
\* resetSession() (which clears the identifier and keeps the subject), or in
\* the session decision made as a process is spawned for a request that
\* carries no resume identifier or another subject (which clears the
\* identifier and takes the subject of the request); a failing attempt
\* changes neither.
C25_SessionStateChanges ==
    [][<<currentSessionId, currentSubject>>' # <<currentSessionId, currentSubject>>
          => \/ lastParse'.called
             \/ /\ lastArgs' = NoArgs
                /\ lastResponse' = NoResponse
                /\ currentSessionId' = None
                /\ currentSubject' = currentSubject
             \/ /\ lastArgs' # NoArgs
                /\ currentSessionId' = None
                /\ \E i \in Ids :
                      /\ requests[i].pc # "exec"
                      /\ requests'[i].pc = "exec"
                      /\ requests'[i].sessionId = None
                            \/ requests'[i].subject # currentSubject
                      /\ currentSubject' = requests'[i].subject]_vars

\* a request that resumed the tracked session failed on its last attempt
\* and the session is still tracked
C25_Witness ==
    /\ lastResponse.kind = "rejected"
    /\ lastResponse.attempts = MAX_RETRIES + 1
    /\ lastArgs = NoArgs
    /\ currentSessionId # None

\* C26: getCircuitState() returns the state of the breaker and leaves its
\* state, its failure counter and its timestamp as they were; called when
\* the breaker is Open and the cooldown has elapsed it returns Open and the
\* breaker stays Open.
C26_GetCircuitStateReadOnly ==
    [][lastCircuitState' # None =>
          /\ lastCircuitState' = circuitBreaker.state
          /\ circuitBreaker' = circuitBreaker
          /\ (circuitBreaker.state = "OPEN"
                /\ circuitBreaker.sinceFailure >= CIRCUIT_RESET_TIMEOUT_MS)
             => (lastCircuitState' = "OPEN" /\ circuitBreaker'.state = "OPEN")]_vars

\* getCircuitState() has answered Open after the cooldown had elapsed, and
\* the breaker is still Open
C26_Witness ==
    /\ lastCircuitState = "OPEN"
    /\ circuitBreaker.state = "OPEN"
    /\ circuitBreaker.sinceFailure >= CIRCUIT_RESET_TIMEOUT_MS

\* C27 as stated: when the output holds an Assistant record, the parsed text
\* is the joined text items of the latest one, and the text of no earlier
\* Assistant record is returned, also when the latest one has an empty
\* content list.
C27_LatestAssistantOnly ==
    lastParse.called =>
        LET out == lastParse.stdout
            assistants == {k \in 1..Len(out) :
                             IsJson(out[k]) /\ out[k].json.type = "assistant"}
            latest == CHOOSE k \in assistants : \A j \in assistants : j <= k
            latestText == JoinTexts(out[latest].json.message.content)
            earlierTexts == {JoinTexts(out[j].json.message.content) :
                                j \in assistants \ {latest}}
            text == ParseOutput(out).text
        IN  assistants # {} =>
                /\ latestText # "" => text = latestText
                /\ text \notin earlierTexts \ {"", latestText}
                /\ lastResponse.text = text

\* C28: when the output holds no Assistant record the parsed text is the
\* text of its Result record (of the first one that has a text; the empty
\* text when there is none), and a Result record read while a non-empty text
\* is accumulated leaves that text as it is.
C28_ResultIsFallback ==
    lastParse.called =>
        LET out == SelectSeq(lastParse.stdout, NonBlank)
            assistants == {k \in 1..Len(out) :
                             IsJson(out[k]) /\ out[k].json.type = "assistant"}
            results == {k \in 1..Len(out) :
                          /\ IsJson(out[k])
                          /\ out[k].json.type = "result"}
            withText == {k \in results : out[k].json.result # ""}
            first == CHOOSE k \in withText : \A j \in withText : k <= j
            text == ParseOutput(lastParse.stdout).text
            Before(k) == ParseLines([text |-> "", parsedSessionId |-> None],
                                    SubSeq(out, 1, k - 1))
        IN  /\ (assistants = {} /\ withText # {}) => text = out[first].json.result
            /\ (assistants = {} /\ withText = {}) => text = ""
            /\ \A k \in results :
                  Before(k).text # "" => Before(k + 1).text = Before(k).text
            /\ lastResponse.text = text

\* an output of a Result record alone was parsed to the text of that record
C28_Witness ==
    /\ lastParse.called
    /\ lastParse.stdout = <<ResultLine("fallback text", FALSE)>>
    /\ lastResponse.kind = "resolved"
    /\ lastResponse.text = "fallback text"

\* C29: when a process exits with code 0 outside the timeout path and its
\* output holds a Result record flagged as an error, the request is resolved
\* with isError = false and a success is recorded on the breaker, also when
\* the parsed text is empty.
C29_ErrorFlagNeverFails ==
    [][(/\ lastParse'.called
        /\ \E k \in 1..Len(lastParse'.stdout) :
              /\ IsJson(lastParse'.stdout[k])
              /\ lastParse'.stdout[k].json.type = "result"
              /\ lastParse'.stdout[k].json.is_error)
          => /\ lastResponse'.kind = "resolved"
             /\ ~lastResponse'.isError
             /\ lastError' = None
             /\ circuitBreaker' = RecordSuccess(circuitBreaker)
             /\ outcomes'[lastResponse'.id].successes = 1
             /\ outcomes'[lastResponse'.id].failures = 0
             /\ consecFails' = 0]_vars

\* a request was resolved with an empty text on an output whose only record
\* is a Result record flagged as an error, after failures had been counted
C29_Witness ==
    /\ lastParse.called
    /\ lastParse.stdout = <<ResultLine("", TRUE)>>
    /\ lastResponse.kind = "resolved"
    /\ ~lastResponse.isError
    /\ lastResponse.text = ""
    /\ circuitBreaker.state = "CLOSED"
    /\ circuitBreaker.failureCount = 0
    /\ \E i \in Ids : outcomes[i].failures = 1

\* C30: lines that are not JSON and blank lines are skipped: the output
\* parses to the same text and the same session identifier as the output
\* without these lines, and the invocation is resolved with that text.
C30_NoiseIsSkipped ==
    lastParse.called =>
        LET out == lastParse.stdout
            records == SelectSeq(out, IsJson)
        IN  /\ ParseOutput(out).text = ParseOutput(records).text
            /\ ParseOutput(out).parsedSessionId = ParseOutput(records).parsedSessionId
            /\ lastResponse.kind = "resolved"
            /\ ~lastResponse.isError
            /\ lastResponse.text = ParseOutput(records).text
            /\ ParseOutput(records).parsedSessionId # None
                  => lastResponse.sessionId = ParseOutput(records).parsedSessionId

\* an output with a line of debug output and an empty line between its
\* records was parsed to the session identifier and the text of its records
C30_Witness ==
    /\ lastParse.called
    /\ lastParse.stdout = <<InitLine("s1"), [raw |-> "debug"],
                            AssistantLine(<<TextItem("hello")>>)>>
    /\ lastResponse.kind = "resolved"
    /\ lastResponse.text = "hello"
    /\ lastResponse.sessionId = "s1"

\* C31: in every step in which an invocation succeeds, the parsed session
\* identifier is that of the last Init record of the output (none without
\* an Init record); the identifier tracked as the close handler answers is
\* the parsed one when there is one and the one tracked before otherwise;
\* the sessionId of the response is that tracked identifier (the empty string
\* when none is tracked); and the identifier tracked after the step is the
\* same, unless the session decision of a request dequeued in the same step
\* has cleared it.
C31_SessionIdFromLatestInit ==
    [][lastParse'.called =>
          LET out == lastParse'.stdout
              inits == {k \in 1..Len(out) :
                          /\ IsJson(out[k])
                          /\ out[k].json.type = "system"
                          /\ out[k].json.subtype = "init"}
              latest == CHOOSE k \in inits : \A j \in inits : j <= k
              expected == IF inits = {} THEN None ELSE out[latest].json.session_id
              tracked == IF expected # None THEN expected ELSE currentSessionId
          IN  /\ ParseOutput(out).parsedSessionId = expected
              /\ lastResponse'.kind = "resolved"
              /\ lastResponse'.sessionId = IF tracked = None THEN "" ELSE tracked
              /\ lastArgs' = NoArgs => currentSessionId' = tracked
              /\ lastArgs' # NoArgs => currentSessionId' \in {tracked, None}]_vars

\* an output with two Init records was answered with the identifier of the
\* second, which is the one tracked
C31_Witness ==
    /\ lastParse.called
    /\ lastParse.stdout = <<InitLine("s1"), InitLine("s2")>>
    /\ lastResponse.sessionId = "s2"
    /\ currentSessionId = "s2"

\* C32: the timers of an invocation do not outlive it: a timeout timer is
\* pending only for a request whose process has not been seen to exit, and
\* every pending kill-escalation timer is that of the attempt whose process
\* is still running.
C32_TimersEndWithInvocation ==
    /\ \A i \in Ids : requests[i].timeout => requests[i].pc = "exec"
    /\ \A g \in graceTimers :
          requests[g.id].pc = "exec" /\ requests[g.id].attempt = g.attempt

\* C33: every retry of a request is spawned with the arguments of the
\* attempt before it, so that all attempts of a request have the arguments
\* of its first attempt, also when resetSession() is called during the
\* retry delay.
C33_RetryKeepsArguments ==
    [][\A i \in Ids :
          (requests[i].pc = "delay" /\ requests'[i].pc = "exec")
              => /\ requests'[i].args = requests[i].args
                 /\ lastArgs' = requests[i].args]_vars

\* C34: no call of chat() changes the breaker: its state, its failure counter
\* and the time of its last failure are the same after the call as before.
C34_ChatLeavesBreaker ==
    [][nextId' # nextId => circuitBreaker' = circuitBreaker]_vars

\* C35: the breaker is Closed exactly when its failure counter is below the
\* threshold, and Open or Half-Open exactly when the counter has reached it.
C35_StateAgreesWithCounter ==
    /\ circuitBreaker.state = "CLOSED"
          <=> circuitBreaker.failureCount < CIRCUIT_FAILURE_THRESHOLD
    /\ circuitBreaker.state \in {"OPEN", "HALF_OPEN"}
          <=> circuitBreaker.failureCount >= CIRCUIT_FAILURE_THRESHOLD

\* the breaker is Open again after the trial admitted in Half-Open has failed
C35_Witness ==
    /\ circuitBreaker.state = "OPEN"
    /\ circuitBreaker.failureCount = CIRCUIT_FAILURE_THRESHOLD + 1

\* C36: the breaker never goes from Open to Closed in one step: it leaves
\* Open only for Half-Open.
C36_OpenLeavesThroughHalfOpen ==
    [][circuitBreaker.state = "OPEN" => circuitBreaker'.state \in {"OPEN", "HALF_OPEN"}]_vars

\* C37: between events, the processing flag is set exactly when a request is
\* being served, and a request waits in the queue only while it is set; in
\* a step that settles a request, by success or by failure, the flag is
\* cleared unless the next request is dequeued in that step.
C37_NoLostWakeup ==
    /\ [](/\ Len(queue) > 0 => processing
          /\ processing <=> ServedIds # {})
    /\ [][lastResponse'.kind \in {"resolved", "rejected"} =>
             /\ processing' <=> lastArgs' # NoArgs
             /\ Len(queue) = 0 => ~processing'
             /\ Len(queue) > 0 => (processing' /\ Len(queue') = Len(queue) - 1)]_vars

\* a request has been rejected and the request that waited behind it is
\* being served
C37_Witness ==
    /\ lastResponse.kind = "rejected"
    /\ processing
    /\ lastArgs # NoArgs
    /\ \E i \in Ids : requests[i].pc = "queued"

\* C38: a process spawned with a resume directive resumes the session whose
\* identifier its request carries.
C38_ResumesRequestedSession ==
    \A i \in Ids :
        (requests[i].pc = "exec" /\ \E k \in 1..Len(requests[i].args) :
                                        requests[i].args[k] = "--resume")
            => ResumeArgs(requests[i].args, requests[i].sessionId)

\* C39: the usage count of the day never goes above the daily limit.
C39_QuotaNeverExceeded ==
    UsageCount <= DAILY_LIMIT

====
